---- MODULE Spec2Model ----
(***************************************************************************)
(* A model of src/app.py: the DMARC aggregate-report analyzer.             *)
(*                                                                         *)
(* One run of main() is a state machine: the GeoIP reader is opened, the   *)
(* uploaded files are ingested one by one (plain XML documents or ZIP      *)
(* containers), the parsed frames are concatenated and sorted by date, and *)
(* the metrics, the per-domain rollup and the mismatch table are computed  *)
(* before the reader is closed.  An uncaught Python exception ends the run *)
(* at the statement that raised it.                                        *)
(*                                                                         *)
(* Data encoding.                                                          *)
(*   - The result of ElementTree's find() is a sequence: <<>> when the     *)
(*     element is absent (find returns None), <<t>> when it is present     *)
(*     with text t.                                                        *)
(*   - The text of a string-valued element is a string; NoneVal stands for *)
(*     Python's None (the .text of an empty element).                      *)
(*   - The text of a numeric element (count, begin, end) is a sequence of  *)
(*     characters, so that int() is a real parse; the empty sequence is    *)
(*     the empty element, on which int() raises.                           *)
(*   - Strings cannot be compared for order in TLA+: DomainOrder lists the *)
(*     header_from domain names in ascending lexicographic order, and      *)
(*     DomainRank is the position of a name in it, the only property of    *)
(*     the string that groupby's key sort looks at.                        *)
(*   - A float is a record [kind, num, den]: an exact rational, or one of  *)
(*     the IEEE specials numpy produces on division by zero.               *)
(***************************************************************************)
EXTENDS Integers, Sequences, FiniteSets, TLC

VARIABLES
    files,            \* uploaded_files: what st.file_uploader returned
    pc,               \* position of the run inside main()
    idx,              \* index of the next uploaded file of the for loop
    reader,           \* the geoip2 reader: "none", "open", "closed"
    lookups,          \* reader.city() calls made so far
    all_dfs,          \* the list of parsed frames
    errors,           \* st.error() calls: indices of files reported, 0 = "no valid report"
    exc,              \* the uncaught exception that ended the run, or NoExc
    df,               \* the aggregated frame (a sequence of rows)
    total_messages,   \* df['count'].sum()
    pass_rate,        \* the float shown as the delivery success rate
    domain_analysis,  \* the per-domain rollup rows
    mismatch_df,      \* the mismatch table
    parse_log         \* the calls of parse_dmarc_report: [file, name, content]

vars == <<files, pc, idx, reader, lookups, all_dfs, errors, exc, df,
          total_messages, pass_rate, domain_analysis, mismatch_df, parse_log>>

NoneVal == "<None>"
NoExc == "<no exception>"

\* ---------------------------------------------------------------- helpers

Range(s) == {s[i] : i \in 1..Len(s)}

RECURSIVE SumSeq(_)
SumSeq(s) == IF s = <<>> THEN 0 ELSE s[1] + SumSeq(Tail(s))

RECURSIVE Flatten(_)
Flatten(ss) == IF ss = <<>> THEN <<>> ELSE ss[1] \o Flatten(Tail(ss))

RECURSIVE SelectIdx(_, _, _)
\* the elements of s at the positions where mask is TRUE, in order
SelectIdx(s, mask, i) ==
    IF i > Len(s) THEN <<>>
    ELSE (IF mask[i] THEN <<s[i]>> ELSE <<>>) \o SelectIdx(s, mask, i + 1)

Digits == {"0", "1", "2", "3", "4", "5", "6", "7", "8", "9"}

DigitVal(c) ==
    CASE c = "0" -> 0 [] c = "1" -> 1 [] c = "2" -> 2 [] c = "3" -> 3
      [] c = "4" -> 4 [] c = "5" -> 5 [] c = "6" -> 6 [] c = "7" -> 7
      [] c = "8" -> 8 [] c = "9" -> 9

RECURSIVE DigitsValue(_, _)
DigitsValue(cs, acc) ==
    IF cs = <<>> THEN acc ELSE DigitsValue(Tail(cs), 10 * acc + DigitVal(cs[1]))

\* Python's int() on the text of a numeric element: an optional sign and at
\* least one decimal digit; anything else raises (ValueError, or TypeError
\* on the None text of an empty element).
PyInt(cs) ==
    LET neg  == cs # <<>> /\ cs[1] = "-"
        body == IF cs # <<>> /\ cs[1] \in {"-", "+"} THEN Tail(cs) ELSE cs
    IN  IF body = <<>> \/ \E i \in 1..Len(body) : body[i] \notin Digits
        THEN [ok |-> FALSE, v |-> 0]
        ELSE [ok |-> TRUE,
              v  |-> IF neg THEN 0 - DigitsValue(body, 0) ELSE DigitsValue(body, 0)]

\* ------------------------------------------------------------ the parser

\* The GeoLite2 database: the addresses reader.city() resolves, with the
\* country it returns.  Any other address (private, unknown, None) raises
\* AddressNotFoundError or ValueError inside get_geo_info.
GeoDb == [ip \in {"198.51.100.7"} |-> "JP"]

\* get_geo_info (lines 32-42): the bare except turns every failure of
\* reader.city, a closed reader included, into None.
get_geo_info(ip, rd) ==
    IF rd = "open" /\ ip \in DOMAIN GeoDb THEN GeoDb[ip] ELSE NoneVal

\* The comment texts of the model and str.lower() on them.
Lower(t) ==
    CASE t = "ARC=Pass"          -> "arc=pass"
      [] t = "Forwarded arc=PASS" -> "forwarded arc=pass"
      [] OTHER                   -> t

\* 'arc=pass' in s, for the lower-cased comment texts of the model
ContainsArcPass(s) == s \in {"arc=pass", "forwarded arc=pass"}

Raise(e) == [ok |-> FALSE, exc |-> e]

\* One pass of the loop body of parse_dmarc_report (lines 57-95) on the
\* record element rec: the row appended to data, or the exception raised.
\* x.find(...) is None for an absent element and None.text raises
\* AttributeError; int() raises on a non-integer text.
ParseRecord(rec, report_date, rd) ==
    IF rec.source_ip = <<>> THEN Raise("AttributeError")
    ELSE IF rec.count = <<>> THEN Raise("AttributeError")
    ELSE IF ~PyInt(rec.count[1]).ok THEN Raise("ValueError")
    ELSE IF rec.disposition = <<>> THEN Raise("AttributeError")
    ELSE IF rec.dkim = <<>> THEN Raise("AttributeError")
    ELSE IF rec.spf = <<>> THEN Raise("AttributeError")
    ELSE IF rec.header_from = <<>> THEN Raise("AttributeError")
    ELSE IF rec.auth_dkim # <<>>
            /\ (rec.auth_dkim[1].domain = <<>> \/ rec.auth_dkim[1].result = <<>>)
         THEN Raise("AttributeError")
    ELSE IF rec.auth_spf # <<>>
            /\ (rec.auth_spf[1].domain = <<>> \/ rec.auth_spf[1].result = <<>>)
         THEN Raise("AttributeError")
    ELSE IF rec.reason # <<>> /\ rec.reason[1] # <<>> /\ rec.reason[1][1] = NoneVal
         THEN Raise("AttributeError")    \* None.lower() on an empty <comment/>
    ELSE [ok  |-> TRUE,
          row |-> [date             |-> report_date,
                   source_ip        |-> rec.source_ip[1],
                   count            |-> PyInt(rec.count[1]).v,
                   disposition      |-> rec.disposition[1],
                   dkim_result      |-> rec.dkim[1],
                   spf_result       |-> rec.spf[1],
                   header_from      |-> rec.header_from[1],
                   dkim_domain      |-> IF rec.auth_dkim = <<>> THEN NoneVal
                                        ELSE rec.auth_dkim[1].domain[1],
                   dkim_auth_result |-> IF rec.auth_dkim = <<>> THEN NoneVal
                                        ELSE rec.auth_dkim[1].result[1],
                   spf_domain       |-> IF rec.auth_spf = <<>> THEN NoneVal
                                        ELSE rec.auth_spf[1].domain[1],
                   spf_auth_result  |-> IF rec.auth_spf = <<>> THEN NoneVal
                                        ELSE rec.auth_spf[1].result[1],
                   arc_result       |-> IF rec.reason # <<>> /\ rec.reason[1] # <<>>
                                           /\ ContainsArcPass(Lower(rec.reason[1][1]))
                                        THEN "pass" ELSE NoneVal,
                   country          |-> get_geo_info(rec.source_ip[1], rd)]]

RECURSIVE ParseRecordsSkippingBad(_, _, _, _)
\* a loop that drops the record it cannot read and keeps the others
ParseRecordsSkippingBad(recs, i, report_date, rd) ==
    IF i > Len(recs) THEN [ok |-> TRUE, df |-> <<>>]
    ELSE LET r == ParseRecord(recs[i], report_date, rd)
             rest == ParseRecordsSkippingBad(recs, i + 1, report_date, rd)
         IN  [ok |-> TRUE, df |-> (IF r.ok THEN <<r.row>> ELSE <<>>) \o rest.df]

RECURSIVE ParseRecords(_, _, _, _)
\* the for loop of lines 56-95 from record i on, data being the rows so far
ParseRecords(recs, i, report_date, rd) ==
    IF i > Len(recs) THEN [ok |-> TRUE, df |-> <<>>]
    ELSE LET r == ParseRecord(recs[i], report_date, rd)
         IN  IF ~r.ok THEN r
             ELSE LET rest == ParseRecords(recs, i + 1, report_date, rd)
                  IN  IF ~rest.ok THEN rest
                      ELSE [ok |-> TRUE, df |-> <<r.row>> \o rest.df]

\* datetime.fromtimestamp(ts).date() (lines 51-53) as a day number, on a
\* host whose local time is UTC
DateOf(ts) == ts \div 86400

\* parse_dmarc_report (lines 44-98): the frame of the document's rows, or
\* the exception the call raises.  Nothing is returned when it raises.
parse_dmarc_report(doc, rd) ==
    IF ~doc.wellformed THEN Raise("ParseError")
    ELSE IF doc.begin = <<>> \/ doc.end = <<>> THEN Raise("AttributeError")
    ELSE IF ~PyInt(doc.begin[1]).ok \/ ~PyInt(doc.end[1]).ok THEN Raise("ValueError")
    ELSE ParseRecords(doc.records, 1, DateOf(PyInt(doc.begin[1]).v), rd)

\* the reader.city() calls a parse makes: one per row it completes, the
\* record that raises never reaching line 91
RECURSIVE GoodPrefix(_, _, _)
GoodPrefix(recs, i, rd) ==
    IF i > Len(recs) \/ ~ParseRecord(recs[i], 0, rd).ok THEN 0
    ELSE 1 + GoodPrefix(recs, i + 1, rd)

LookupsOf(doc, rd) ==
    IF ~doc.wellformed \/ doc.begin = <<>> \/ doc.end = <<>> THEN 0
    ELSE IF ~PyInt(doc.begin[1]).ok \/ ~PyInt(doc.end[1]).ok THEN 0
    ELSE GoodPrefix(doc.records, 1, rd)

\* ------------------------------------------------------------- the floats

Rational(n, d) == [kind |-> "num", num |-> n, den |-> d]

\* numpy's int64 / int64 true division: a division by zero is no exception,
\* it warns and yields nan (0/0) or a signed infinity.
NpDivide(a, b) ==
    IF b # 0 THEN (IF b > 0 THEN Rational(a, b) ELSE Rational(0 - a, 0 - b))
    ELSE IF a = 0 THEN [kind |-> "nan", num |-> 0, den |-> 0]
    ELSE IF a > 0 THEN [kind |-> "inf", num |-> 0, den |-> 0]
    ELSE [kind |-> "-inf", num |-> 0, den |-> 0]

\* x * k for a float x and an integer k > 0
FloatTimes(x, k) == IF x.kind = "num" THEN Rational(x.num * k, x.den) ELSE x

\* comparisons of a float with an integer; every comparison with nan is false
FloatLeq(x, k) ==
    CASE x.kind = "num"  -> x.num <= k * x.den
      [] x.kind = "-inf" -> TRUE
      [] OTHER           -> FALSE
FloatGeq(x, k) ==
    CASE x.kind = "num" -> x.num >= k * x.den
      [] x.kind = "inf" -> TRUE
      [] OTHER          -> FALSE
NoFloat == [kind |-> "unset", num |-> 0, den |-> 0]

\* --------------------------------------------------------- the aggregation

\* pd.concat(all_dfs, ignore_index=True) (line 292)
Concat(frames) == Flatten(frames)

Perms(n) == {p \in [1..n -> 1..n] : \A i, j \in 1..n : i # j => p[i] # p[j]}

Permute(s, p) == [i \in 1..Len(s) |-> s[p[i]]]

\* df.sort_values('date') (line 295).  No kind is given, so pandas sorts
\* with numpy's quicksort, which is not a stable sort: the result is in
\* ascending date order, and the order of rows with equal dates is whatever
\* the partitioning leaves (numpy sorts short arrays by insertion, longer
\* ones by introsort).  Every ascending arrangement is a possible outcome.
SortValuesByDate(s) ==
    {Permute(s, p) : p \in {q \in Perms(Len(s)) :
        \A i, j \in 1..Len(s) : i < j => s[q[i]].date <= s[q[j]].date}}

\* ------------------------------------------------------------ the metrics

Counts(s) == [i \in 1..Len(s) |-> s[i].count]

\* df['count'].sum() (line 304)
TotalMessages(s) == SumSeq(Counts(s))

\* (df[df['disposition'] == 'none']['count'].sum() / total_messages) * 100
\* (line 307)
PassRate(s) ==
    LET none_rows == SelectIdx(s, [i \in 1..Len(s) |-> s[i].disposition = "none"], 1)
    IN  FloatTimes(NpDivide(TotalMessages(none_rows), TotalMessages(s)), 100)

\* ------------------------------------------------------- the domain rollup

\* The header_from names of the model, in ascending lexicographic order.
DomainOrder == <<"a.example", "b.example", "c.example", "d.example", "e.example">>

DomainRank(d) == CHOOSE i \in 1..Len(DomainOrder) : DomainOrder[i] = d

RECURSIVE Uniques(_, _)
\* the distinct non-null header_from values of s in order of first
\* appearance, seen being those met so far (groupby drops null keys)
Uniques(s, seen) ==
    IF s = <<>> THEN <<>>
    ELSE IF s[1].header_from = NoneVal \/ s[1].header_from \in seen
         THEN Uniques(Tail(s), seen)
         ELSE <<s[1].header_from>> \o Uniques(Tail(s), seen \cup {s[1].header_from})

RECURSIVE SortKeys(_)
\* the keys in ascending order (a selection sort: the least first)
SortKeys(keys) ==
    IF keys = {} THEN <<>>
    ELSE LET least == CHOOSE k \in keys :
                          \A o \in keys : DomainRank(k) <= DomainRank(o)
         IN  <<least>> \o SortKeys(keys \ {least})

FirstAppearanceKeys(s) == Uniques(s, {})

\* the group keys of df.groupby('header_from') (line 381): sort is left at
\* its default, True, so the groups come in ascending key order
GroupKeys(s) == SortKeys(Range(Uniques(s, {})))

PassPctWeighted(g, col) ==
    LET pass_rows == SelectIdx(g, [i \in 1..Len(g) |-> g[i][col] = "pass"], 1)
    IN  FloatTimes(NpDivide(TotalMessages(pass_rows), TotalMessages(g)), 100)

\* lambda x: (x == 'pass').sum() / len(x) * 100 (lines 382-384)
PassPct(g, col) ==
    LET passes == Cardinality({i \in 1..Len(g) : g[i][col] = "pass"})
    IN  FloatTimes(NpDivide(passes, Len(g)), 100)

GroupOf(s, d) == SelectIdx(s, [i \in 1..Len(s) |-> s[i].header_from = d], 1)

\* df.groupby('header_from').agg({...}).reset_index() (lines 381-387)
DomainAnalysis(s) ==
    LET keys == GroupKeys(s)
    IN  [k \in 1..Len(keys) |->
            LET g == GroupOf(s, keys[k])
            IN  [domain   |-> keys[k],
                 dkim_pct |-> PassPct(g, "dkim_result"),
                 spf_pct  |-> PassPct(g, "spf_result"),
                 arc_pct  |-> PassPct(g, "arc_result"),
                 count    |-> TotalMessages(g)]]

\* ----------------------------------------------------- the mismatch table

\* boolean Series: df[col] == v, df[col] != v, and the & and | of two masks.
\* A None cell is equal to no string and different from every string.
SeriesEq(s, col, v) == [i \in 1..Len(s) |-> s[i][col] = v]
SeriesNe(s, col, v) == [i \in 1..Len(s) |-> s[i][col] # v]
MaskAnd(a, b) == [i \in DOMAIN a |-> a[i] /\ b[i]]
MaskOr(a, b) == [i \in DOMAIN a |-> a[i] \/ b[i]]

\* the mask without its third clause
MismatchMaskWithoutArc(s) ==
    MaskOr(MaskAnd(SeriesEq(s, "dkim_result", "fail"),
                   SeriesEq(s, "dkim_auth_result", "pass")),
           MaskAnd(SeriesEq(s, "spf_result", "fail"),
                   SeriesEq(s, "spf_auth_result", "pass")))

\* the mask of lines 392-395
MismatchMask(s) ==
    MaskOr(MaskOr(MaskAnd(SeriesEq(s, "dkim_result", "fail"),
                          SeriesEq(s, "dkim_auth_result", "pass")),
                  MaskAnd(SeriesEq(s, "spf_result", "fail"),
                          SeriesEq(s, "spf_auth_result", "pass"))),
           MaskAnd(MaskAnd(SeriesNe(s, "arc_result", "pass"),
                           SeriesEq(s, "disposition", "none")),
                   MaskOr(SeriesNe(s, "dkim_result", "pass"),
                          SeriesNe(s, "spf_result", "pass"))))

\* df[mask] (line 392): the rows where the mask is True, in frame order
Mismatches(s) == SelectIdx(s, MismatchMask(s), 1)

\* ------------------------------------------------------------- the ingest

\* f.endswith('.xml') (line 278), for the member names of the model
EndsWithXml(name) == name \in {"report.xml", "second.xml"}

KeepAllMembers(members) == members

\* xml_files = [f for f in z.namelist() if f.endswith('.xml')] (line 278)
XmlFiles(members) ==
    SelectIdx(members, [i \in 1..Len(members) |-> EndsWithXml(members[i].name)], 1)

RECURSIVE ParseMembers(_, _, _)
\* the for loop of lines 282-284 from member i on: the frames appended, the
\* lookups made, and the exception that ended it, if one did
ParseMembers(xml_files, i, rd) ==
    IF i > Len(xml_files) THEN [exc |-> NoExc, dfs |-> <<>>, lookups |-> 0]
    ELSE LET r == parse_dmarc_report(xml_files[i].doc, rd)
             n == LookupsOf(xml_files[i].doc, rd)
         IN  IF ~r.ok THEN [exc |-> r.exc, dfs |-> <<>>, lookups |-> n]
             ELSE LET rest == ParseMembers(xml_files, i + 1, rd)
                  IN  [exc     |-> rest.exc,
                       dfs     |-> <<r.df>> \o rest.dfs,
                       lookups |-> n + rest.lookups]

\* --------------------------------------------------------------- main()

ZipType == "application/zip"

\* what the analysis part of main computes
results == <<total_messages, pass_rate, domain_analysis, mismatch_df>>

\* line 269: geoip_reader = get_geoip_reader()
OpenReader ==
    /\ pc = "start"
    /\ reader' = "open"
    /\ pc' = "upload"
    /\ UNCHANGED <<files, idx, lookups, all_dfs, errors, exc, df, results, parse_log>>

\* line 273, nothing uploaded: the if body is skipped
NoUpload ==
    /\ pc = "upload"
    /\ files = <<>>
    /\ pc' = "close"
    /\ UNCHANGED <<files, idx, reader, lookups, all_dfs, errors, exc, df, results,
                   parse_log>>

\* lines 273-275: all_dfs = [] and the for loop is entered
StartIngest ==
    /\ pc = "upload"
    /\ files # <<>>
    /\ all_dfs' = <<>>
    /\ idx' = 1
    /\ pc' = "ingest"
    /\ UNCHANGED <<files, reader, lookups, errors, exc, df, results, parse_log>>

\* lines 285-286: a file that is no ZIP is parsed as one document; an
\* exception of the parse is caught nowhere and ends the run
IngestXml ==
    /\ pc = "ingest"
    /\ idx <= Len(files)
    /\ files[idx].type # ZipType
    /\ LET r == parse_dmarc_report(files[idx].doc, reader)
       IN  /\ lookups' = lookups + LookupsOf(files[idx].doc, reader)
           /\ parse_log' = Append(parse_log, [file    |-> idx,
                                            name    |-> files[idx].name,
                                            content |-> files[idx].doc])
           /\ IF r.ok
              THEN /\ all_dfs' = Append(all_dfs, r.df)
                   /\ idx' = idx + 1
                   /\ UNCHANGED <<pc, exc>>
              ELSE /\ pc' = "done"
                   /\ exc' = r.exc
                   /\ UNCHANGED <<all_dfs, idx>>
    /\ UNCHANGED <<files, reader, errors, df, results>>

\* lines 276-281: a ZIP without a member named *.xml is reported with
\* st.error and the loop goes on with the next file
IngestZipNoXml ==
    /\ pc = "ingest"
    /\ idx <= Len(files)
    /\ files[idx].type = ZipType
    /\ XmlFiles(files[idx].members) = <<>>
    /\ errors' = errors \cup {idx}
    /\ idx' = idx + 1
    /\ UNCHANGED <<files, pc, reader, lookups, all_dfs, exc, df, results, parse_log>>

\* lines 276-284: every member named *.xml is parsed, in namelist order
IngestZip ==
    /\ pc = "ingest"
    /\ idx <= Len(files)
    /\ files[idx].type = ZipType
    /\ XmlFiles(files[idx].members) # <<>>
    /\ LET xml_files == XmlFiles(files[idx].members)
           r == ParseMembers(xml_files, 1, reader)
           called == Len(r.dfs) + (IF r.exc = NoExc THEN 0 ELSE 1)
       IN  /\ all_dfs' = all_dfs \o r.dfs
           /\ lookups' = lookups + r.lookups
           /\ parse_log' = parse_log \o [k \in 1..called |->
                                            [file    |-> idx,
                                             name    |-> xml_files[k].name,
                                             content |-> xml_files[k].doc]]
           /\ IF r.exc = NoExc
              THEN idx' = idx + 1 /\ UNCHANGED <<pc, exc>>
              ELSE pc' = "done" /\ exc' = r.exc /\ UNCHANGED idx
    /\ UNCHANGED <<files, reader, errors, df, results>>

\* lines 288-290: no frame was parsed: st.error and return
NoReports ==
    /\ pc = "ingest"
    /\ idx > Len(files)
    /\ all_dfs = <<>>
    /\ errors' = errors \cup {0}
    /\ pc' = "done"
    /\ UNCHANGED <<files, idx, reader, lookups, all_dfs, exc, df, results, parse_log>>

\* lines 292-295: concat, then sort_values('date').  Frames without rows
\* have no columns, so when no frame has a row the concatenation has no
\* 'date' column and sort_values raises KeyError.
Aggregate ==
    /\ pc = "ingest"
    /\ idx > Len(files)
    /\ all_dfs # <<>>
    /\ IF Concat(all_dfs) = <<>>
       THEN pc' = "done" /\ exc' = "KeyError" /\ UNCHANGED df
       ELSE /\ df' \in SortValuesByDate(Concat(all_dfs))
            /\ pc' = "summarize"
            /\ UNCHANGED exc
    /\ UNCHANGED <<files, idx, reader, lookups, all_dfs, errors, results, parse_log>>

\* lines 297-308: the total and the pass rate are computed and shown
Summarize ==
    /\ pc = "summarize"
    /\ total_messages' = TotalMessages(df)
    /\ pass_rate' = PassRate(df)
    /\ pc' = "rollup"
    /\ UNCHANGED <<files, idx, reader, lookups, all_dfs, errors, exc, df,
                   domain_analysis, mismatch_df, parse_log>>

\* lines 381-388
Rollup ==
    /\ pc = "rollup"
    /\ domain_analysis' = DomainAnalysis(df)
    /\ pc' = "mismatch"
    /\ UNCHANGED <<files, idx, reader, lookups, all_dfs, errors, exc, df,
                   total_messages, pass_rate, mismatch_df, parse_log>>

\* lines 392-399
Mismatch ==
    /\ pc = "mismatch"
    /\ mismatch_df' = Mismatches(df)
    /\ pc' = "geo"
    /\ UNCHANGED <<files, idx, reader, lookups, all_dfs, errors, exc, df,
                   total_messages, pass_rate, domain_analysis, parse_log>>

\* lines 404-452: the map and the report.  A row has the geo keys only when
\* its lookup succeeded (lines 92-93), so when no lookup did, the frame has
\* no 'country' column and the groupby of line 408 raises KeyError.
GeoCharts ==
    /\ pc = "geo"
    /\ IF \A i \in 1..Len(df) : df[i].country = NoneVal
       THEN pc' = "done" /\ exc' = "KeyError"
       ELSE pc' = "close" /\ UNCHANGED exc
    /\ UNCHANGED <<files, idx, reader, lookups, all_dfs, errors, df, results, parse_log>>

\* line 455: geoip_reader.close(), the last statement of main
CloseReader ==
    /\ pc = "close"
    /\ reader' = "closed"
    /\ pc' = "done"
    /\ UNCHANGED <<files, idx, lookups, all_dfs, errors, exc, df, results, parse_log>>

Next ==
    \/ OpenReader
    \/ NoUpload
    \/ StartIngest
    \/ IngestXml
    \/ IngestZipNoXml
    \/ IngestZip
    \/ NoReports
    \/ Aggregate
    \/ Summarize
    \/ Rollup
    \/ Mismatch
    \/ GeoCharts
    \/ CloseReader

\* the state of a run before its first statement, on the upload fs
InitOn(fs) ==
    /\ files = fs
    /\ pc = "start"
    /\ idx = 0
    /\ reader = "none"
    /\ lookups = 0
    /\ all_dfs = <<>>
    /\ errors = {}
    /\ exc = NoExc
    /\ df = <<>>
    /\ total_messages = 0
    /\ pass_rate = NoFloat
    /\ domain_analysis = <<>>
    /\ mismatch_df = <<>>
    /\ parse_log = <<>>

\* ------------------------------------------------------------- the inputs

\* bounds of the model
MaxDocs == 3        \* documents supplied in one upload, archive members included
MaxRecords == 2     \* record elements of a document in the analysis universes
NumDomains == 2     \* distinct header_from domains

SeqsUpTo(S, n) == UNION {[1..k -> S] : k \in 0..n}

PublicIp == "198.51.100.7"     \* in the GeoLite2 database
PrivateIp == "10.0.0.1"        \* in no database: the lookup fails

\* a well-formed record element: one message from a resolvable address that
\* passed everything, with no auth_results and no policy reason
BaseRec ==
    [source_ip   |-> <<PublicIp>>,
     count       |-> << <<"1">> >>,
     disposition |-> <<"none">>,
     dkim        |-> <<"pass">>,
     spf         |-> <<"pass">>,
     header_from |-> <<"a.example">>,
     auth_dkim   |-> <<>>,
     auth_spf    |-> <<>>,
     reason      |-> <<>>]

Auth(result) == <<[domain |-> <<"a.example">>, result |-> <<result>>]>>

Day0 == <<"3", "6", "0", "0">>            \* 1970-01-01 01:00
Day1 == <<"8", "6", "4", "0", "0">>       \* 1970-01-02 00:00
Day1Late == <<"9", "0", "0", "0", "0">>   \* 1970-01-02 01:00

DocOf(begin, recs) ==
    [wellformed |-> TRUE, begin |-> <<begin>>, end |-> <<begin>>, records |-> recs]

MalformedDoc == [wellformed |-> FALSE, begin |-> <<>>, end |-> <<>>, records |-> <<>>]

PlainFile(doc) ==
    [type |-> "text/xml", name |-> "upload.xml", doc |-> doc, members |-> <<>>]

ZipFile(members) ==
    [type |-> ZipType, name |-> "upload.zip", doc |-> MalformedDoc, members |-> members]

\* The documents of the batch universe: one that is no XML, one without
\* records, three that parse (two of them covering the same day), and one
\* whose second record has no source_ip.
BatchDocs ==
    {MalformedDoc,
     DocOf(Day0, <<>>),
     DocOf(Day0, <<[BaseRec EXCEPT !.source_ip = <<PrivateIp>>, !.count = << <<"3">> >>]>>),
     DocOf(Day1, <<BaseRec>>),
     DocOf(Day1Late, <<[BaseRec EXCEPT !.count = << <<"2">> >>, !.disposition = <<"reject">>]>>),
     DocOf(Day1, <<BaseRec, [BaseRec EXCEPT !.source_ip = <<>>]>>)}

\* archive members: under a name ending in .xml, the two same-day documents
\* and the one that is no XML; under a name that does not, a document that
\* would parse
BatchMembers ==
    {[name |-> "report.xml", doc |-> d] :
        d \in {MalformedDoc,
               DocOf(Day1, <<BaseRec>>),
               DocOf(Day1Late, <<[BaseRec EXCEPT !.count = << <<"2">> >>,
                                                 !.disposition = <<"reject">>]>>)}}
        \cup {[name |-> "readme.txt", doc |-> DocOf(Day1, <<BaseRec>>)]}

\* the uploaded files that hold w documents (an empty archive counts as 1)
FilesOfWeight(w) ==
    {ZipFile(ms) : ms \in [1..w -> BatchMembers]}
        \cup (IF w = 1 THEN {PlainFile(d) : d \in BatchDocs} \cup {ZipFile(<<>>)} ELSE {})

RECURSIVE BatchesOfWeight(_)
BatchesOfWeight(w) ==
    IF w = 0 THEN {<<>>}
    ELSE UNION {{<<f>> \o b : f \in FilesOfWeight(k), b \in BatchesOfWeight(w - k)} :
                   k \in 1..w}

BatchesUpTo(n) == UNION {BatchesOfWeight(w) : w \in 0..n}

\* uploads that take the run through every branch of main
StructuralBatches == BatchesUpTo(1) \cup {<<ZipFile(<<m>>), PlainFile(DocOf(Day1, <<BaseRec>>))>> :
                                             m \in BatchMembers}

\* one plain file holding one document with the records rs
SingleDoc(rs) == <<PlainFile(DocOf(Day1, rs))>>

SingleDocs(R, n) == {SingleDoc(rs) : rs \in SeqsUpTo(R, n)}

\* the parse universe: a record lacking one required element, or broken in
\* another way, at any position among well-formed records
RequiredFields ==
    {"source_ip", "count", "disposition", "dkim", "spf", "header_from"}

ParseRecs ==
    {BaseRec, [BaseRec EXCEPT !.count = << <<"2">> >>]}
        \cup {[BaseRec EXCEPT ![f] = <<>>] : f \in RequiredFields}
        \cup {[BaseRec EXCEPT !.count = << <<"x">> >>],
              [BaseRec EXCEPT !.count = << <<>> >>],
              [BaseRec EXCEPT !.source_ip = <<NoneVal>>],
              [BaseRec EXCEPT !.auth_dkim = <<[domain |-> <<>>, result |-> <<"pass">>]>>],
              [BaseRec EXCEPT !.reason = << <<NoneVal>> >>]}

\* the mismatch universe: every combination of the six columns the mask
\* reads, one row at a time, and sequences over a smaller set
AuthChoices == {<<>>, Auth("pass"), Auth("fail")}
ReasonChoices == {<<>>, << <<"ARC=Pass">> >>}

MismatchRecsAll ==
    {[BaseRec EXCEPT !.dkim = <<dk>>, !.spf = <<sp>>, !.auth_dkim = ad,
                     !.auth_spf = as, !.reason = rs, !.disposition = <<dp>>] :
        dk \in {"pass", "fail", "temperror"}, sp \in {"pass", "fail", "temperror"},
        ad \in AuthChoices, as \in AuthChoices, rs \in ReasonChoices,
        dp \in {"none", "quarantine"}}

MismatchRecsSeq ==
    {[BaseRec EXCEPT !.dkim = <<dk>>, !.auth_dkim = ad, !.reason = rs,
                     !.disposition = <<dp>>] :
        dk \in {"pass", "fail"}, ad \in {<<>>, Auth("pass")}, rs \in ReasonChoices,
        dp \in {"none", "quarantine"}}
      \cup {[BaseRec EXCEPT !.spf = <<"fail">>, !.auth_spf = Auth("pass"),
                            !.disposition = <<"reject">>]}

\* the rollup universe
Domains == {DomainOrder[i] : i \in 1..NumDomains}

RollupRecs ==
    {[BaseRec EXCEPT !.header_from = <<d>>, !.dkim = <<dk>>, !.spf = <<sp>>,
                     !.reason = rs, !.count = <<c>>] :
        d \in Domains, dk \in {"pass", "fail"}, c \in {<<"1">>, <<"1", "0">>},
        <<sp, rs>> \in {<<"pass", <<>> >>, <<"fail", << <<"Forwarded arc=PASS">> >> >>}}

\* the volume universe: counts of either sign and zero
VolumeRecs ==
    {[BaseRec EXCEPT !.count = <<c>>, !.disposition = <<dp>>] :
        c \in {<<"1">>, <<"2">>, <<"0">>, <<"-", "1">>}, dp \in {"none", "reject"}}

Init == \E fs \in BatchesUpTo(MaxDocs) : InitOn(fs)
InitParse == \E fs \in SingleDocs(ParseRecs, MaxRecords + 1) \cup StructuralBatches : InitOn(fs)
InitMismatch ==
    \E fs \in SingleDocs(MismatchRecsAll, 1) \cup SingleDocs(MismatchRecsSeq, MaxRecords)
               \cup StructuralBatches : InitOn(fs)
InitRollup == \E fs \in SingleDocs(RollupRecs, MaxRecords) \cup StructuralBatches : InitOn(fs)
InitVolume ==
    \E fs \in SingleDocs(VolumeRecs, MaxRecords + 1)
               \cup {<<PlainFile(DocOf(Day1, <<>>))>>} \cup StructuralBatches : InitOn(fs)

Spec == Init /\ [][Next]_vars
SpecParse == InitParse /\ [][Next]_vars
SpecMismatch == InitMismatch /\ [][Next]_vars
SpecRollup == InitRollup /\ [][Next]_vars
SpecVolume == InitVolume /\ [][Next]_vars

\* ------------------------------------------------------------------------
\* Properties
\* ------------------------------------------------------------------------

Occurrences(s, x) == Cardinality({i \in 1..Len(s) : s[i] = x})

\* the documents handed to the ingest loop: every plain file and every
\* archive member named *.xml, as <<file index, document>>
RECURSIVE SuppliedFrom(_, _)
SuppliedFrom(fs, i) ==
    IF i > Len(fs) THEN <<>>
    ELSE (IF fs[i].type = ZipType
          THEN LET ms == fs[i].members
                   named == {k \in 1..Len(ms) : ms[k].name \notin {"readme.txt"}}
               IN  SelectIdx([k \in 1..Len(ms) |-> <<i, ms[k].doc>>],
                             [k \in 1..Len(ms) |-> k \in named], 1)
          ELSE << <<i, fs[i].doc>> >>) \o SuppliedFrom(fs, i + 1)

Supplied == SuppliedFrom(files, 1)

Parses(doc) == parse_dmarc_report(doc, "open").ok

\* C1: when some supplied document fails to parse and another parses with
\* records, the run ends with the failing file reported as a per-item error
\* and with every row of every parsing document in the aggregated frame.
C1_PartialFailureKeepsSiblings ==
    (/\ pc = "done"
     /\ \E k \in 1..Len(Supplied) : ~Parses(Supplied[k][2])
     /\ \E k \in 1..Len(Supplied) :
            Parses(Supplied[k][2]) /\ Supplied[k][2].records # <<>>)
    => /\ \A k \in 1..Len(Supplied) :
            ~Parses(Supplied[k][2]) => Supplied[k][1] \in errors
       /\ \A k \in 1..Len(Supplied) :
            Parses(Supplied[k][2]) =>
                \A row \in Range(parse_dmarc_report(Supplied[k][2], "open").df) :
                    Occurrences(df, row) >= 1

RECURSIVE InsertByDate(_, _)
\* row put into the date-sorted sequence s behind every row of a date not
\* later than its own
InsertByDate(s, row) ==
    IF s = <<>> THEN <<row>>
    ELSE IF s[Len(s)].date <= row.date THEN Append(s, row)
    ELSE Append(InsertByDate(SubSeq(s, 1, Len(s) - 1), row), s[Len(s)])

RECURSIVE StableSortByDate(_)
StableSortByDate(s) ==
    IF s = <<>> THEN <<>>
    ELSE InsertByDate(StableSortByDate(SubSeq(s, 1, Len(s) - 1)), s[Len(s)])

Aggregated == pc \in {"summarize", "rollup", "mismatch", "geo", "close"}

\* C2: the aggregated frame is the stable sort by date of the concatenation
\* of the parsed frames in input order: every row once, dates ascending,
\* rows of one date in concatenation order.
C2_AggregationIsStableSort ==
    Aggregated => df = StableSortByDate(Concat(all_dfs))

\* the parts of C2 that do not depend on the sort being stable: the frame
\* is a rearrangement of the concatenation, in ascending date order
AggregationIsAscendingRearrangement ==
    Aggregated =>
        /\ Len(df) = Len(Concat(all_dfs))
        /\ \A i \in 1..Len(df) : Occurrences(df, df[i]) = Occurrences(Concat(all_dfs), df[i])
        /\ \A i, j \in 1..Len(df) : i < j => df[i].date <= df[j].date

\* C3: once every uploaded file is ingested and the parsed data hold no
\* volume (no frame, no row, or counts summing to zero), the caller has
\* been given the no-data signal, no NaN or infinity was shown as the pass
\* rate, and no exception ended the run.
C3_ZeroVolumeSignalled ==
    (/\ files # <<>>
     /\ idx > Len(files)
     /\ pc \notin {"ingest", "summarize"}
     /\ TotalMessages(Concat(all_dfs)) = 0)
    => /\ 0 \in errors
       /\ pass_rate.kind \notin {"nan", "inf", "-inf"}
       /\ exc = NoExc

Summarized == pc \in {"rollup", "mismatch", "geo", "close"}

\* C5: for a non-empty aggregated frame the pass rate lies in [0, 100], and
\* no parsed row has a count below 1.
C5_PassRateBounds ==
    (Summarized /\ df # <<>>)
    => /\ FloatGeq(pass_rate, 0)
       /\ FloatLeq(pass_rate, 100)
       /\ \A i \in 1..Len(df) : df[i].count >= 1

\* C10: a run that has ended has closed the reader it opened.
C10_ReaderClosedAtEnd == pc = "done" => reader = "closed"

\* the other half of C10: a closed reader serves no lookup
ReaderNotUsedAfterClose == [][reader = "closed" => lookups' = lookups]_vars

\* a record element without one of the six required elements
LacksRequired(rec) == \E f \in RequiredFields : rec[f] = <<>>

HasLackingRecord(doc) ==
    doc.wellformed /\ \E k \in 1..Len(doc.records) : LacksRequired(doc.records[k])

\* C7: a document with a record that lacks a required element, at whatever
\* position, yields an exception and no frame: the call that parsed it is
\* the last of the run, it appended nothing to all_dfs, and no row at all,
\* of that document or with a null field, is in the aggregated frame.
C7_LackingRecordRejectsDocument ==
    \A k \in 1..Len(parse_log) :
        HasLackingRecord(parse_log[k].content) =>
            /\ k = Len(parse_log)
            /\ Len(all_dfs) = k - 1
            /\ exc \in {"AttributeError", "ValueError"}
            /\ pc = "done"
            /\ df = <<>>

\* a document of two records, the first well-formed, the second without
\* header_from, was parsed
C7_Witness ==
    /\ pc = "done"
    /\ exc = "AttributeError"
    /\ \E k \in 1..Len(parse_log) :
          LET recs == parse_log[k].content.records
          IN  /\ Len(recs) = 2
              /\ ~LacksRequired(recs[1])
              /\ recs[2].header_from = <<>>

\* the mismatch predicate on one row: an absent auth result is never a
\* pass, an absent ARC result is not a pass
IsMismatch(r) ==
    \/ r.dkim_result = "fail" /\ r.dkim_auth_result # NoneVal /\ r.dkim_auth_result = "pass"
    \/ r.spf_result = "fail" /\ r.spf_auth_result # NoneVal /\ r.spf_auth_result = "pass"
    \/ /\ (r.arc_result = NoneVal \/ r.arc_result # "pass")
       /\ r.disposition = "none"
       /\ (r.dkim_result # "pass" \/ r.spf_result # "pass")

MismatchComputed == pc \in {"geo", "close"}

\* C8: the mismatch table is the rows of the aggregated frame that satisfy
\* the predicate, all of them and no other, in frame order: its k-th row is
\* the frame's k-th satisfying row.
C8_MismatchIsSatisfyingSubsequence ==
    MismatchComputed =>
        LET sat == {i \in 1..Len(df) : IsMismatch(df[i])}
        IN  /\ Len(mismatch_df) = Cardinality(sat)
            /\ \A k \in 1..Len(mismatch_df) :
                  \E i \in sat : /\ Cardinality({j \in sat : j < i}) = k - 1
                                 /\ mismatch_df[k] = df[i]

\* a frame of two rows: the first passes everything, the second is kept by
\* the ARC clause alone
C8_Witness ==
    /\ MismatchComputed
    /\ Len(df) = 2
    /\ ~IsMismatch(df[1])
    /\ df[2].dkim_result = "fail" /\ df[2].dkim_auth_result = NoneVal
    /\ df[2].arc_result = NoneVal /\ df[2].disposition = "none"
    /\ mismatch_df = <<df[2]>>

RolledUp == pc \in {"mismatch", "geo", "close"}

RowsOfDomain(d) == {i \in 1..Len(df) : df[i].header_from = d}

RECURSIVE SumCounts(_)
SumCounts(I) ==
    IF I = {} THEN 0
    ELSE LET i == CHOOSE x \in I : TRUE IN df[i].count + SumCounts(I \ {i})

\* x is the float 100 * p / n
IsPct(x, p, n) == x.kind = "num" /\ x.num * n = 100 * p * x.den

\* C9: every header_from of the frame has one rollup row, whose three
\* percentages are 100 * (rows of the group with a pass) / (rows of the
\* group), whatever the counts, and whose total is the sum of the counts.
C9_RollupWeighting ==
    RolledUp =>
        /\ {domain_analysis[k].domain : k \in 1..Len(domain_analysis)}
               = {df[i].header_from : i \in 1..Len(df)}
        /\ \A k \in 1..Len(domain_analysis) :
              LET row == domain_analysis[k]
                  I == RowsOfDomain(row.domain)
                  n == Cardinality(I)
              IN  /\ IsPct(row.dkim_pct, Cardinality({i \in I : df[i].dkim_result = "pass"}), n)
                  /\ IsPct(row.spf_pct, Cardinality({i \in I : df[i].spf_result = "pass"}), n)
                  /\ IsPct(row.arc_pct, Cardinality({i \in I : df[i].arc_result = "pass"}), n)
                  /\ row.count = SumCounts(I)

\* the example of the claim: counts 10 with a DKIM pass and 1 with a DKIM
\* fail give 50 percent and a total of 11
C9_Witness ==
    /\ RolledUp
    /\ Len(df) = 2
    /\ \E i, j \in 1..2 :
          /\ df[i].count = 10 /\ df[i].dkim_result = "pass"
          /\ df[j].count = 1 /\ df[j].dkim_result = "fail"
          /\ df[i].header_from = df[j].header_from
    /\ Len(domain_analysis) = 1
    /\ IsPct(domain_analysis[1].dkim_pct, 50, 100)
    /\ domain_analysis[1].count = 11

FirstRowOf(d) == CHOOSE i \in RowsOfDomain(d) : \A j \in RowsOfDomain(d) : i <= j

\* C4 as stated: with two or more domains, the rollup rows come in the
\* order in which their domains first appear in the aggregated frame.
C4_RollupInFirstAppearanceOrder ==
    (RolledUp /\ Len(domain_analysis) >= 2) =>
        \A j, k \in 1..Len(domain_analysis) :
            j < k => FirstRowOf(domain_analysis[j].domain)
                        < FirstRowOf(domain_analysis[k].domain)

\* C4 as amended: with two or more domains, the rollup rows come in
\* ascending lexicographic order of their domains, one row per domain.
C4_RollupInAscendingDomainOrder ==
    (RolledUp /\ Len(domain_analysis) >= 2) =>
        \A j, k \in 1..Len(domain_analysis) :
            j < k => DomainRank(domain_analysis[j].domain)
                        < DomainRank(domain_analysis[k].domain)

\* a frame whose first row is of b.example and whose second of a.example
C4_Witness ==
    /\ RolledUp
    /\ Len(df) = 2
    /\ df[1].header_from = "b.example" /\ df[2].header_from = "a.example"
    /\ Len(domain_analysis) = 2
    /\ domain_analysis[1].domain = "a.example"

\* an archive none of whose members is named as an XML document
NoXmlMember(f) ==
    f.type = ZipType /\ \A k \in 1..Len(f.members) : f.members[k].name = "readme.txt"

\* C6: the step of the ingest loop on an archive without an XML member
\* reports an error for that file, parses nothing, adds no frame and leaves
\* the loop at the next file; and no call of the parser is ever made on an
\* archive member whose name does not end in .xml.
C6_EmptyArchiveRecovery ==
    /\ [][(pc = "ingest" /\ idx <= Len(files) /\ NoXmlMember(files[idx]))
            => /\ errors' = errors \cup {idx}
               /\ all_dfs' = all_dfs
               /\ parse_log' = parse_log
               /\ idx' = idx + 1
               /\ pc' = "ingest"
               /\ exc' = NoExc]_vars
    /\ [](\A k \in 1..Len(parse_log) :
             files[parse_log[k].file].type = ZipType
                 => parse_log[k].name # "readme.txt")

\* an archive holding only readme.txt was reported, and the file after it
\* was parsed into a frame
C6_Witness ==
    /\ Len(files) >= 2
    /\ NoXmlMember(files[1]) /\ files[1].members # <<>>
    /\ 1 \in errors
    /\ idx = 3
    /\ Len(all_dfs) >= 1
    /\ \E k \in 1..Len(parse_log) : parse_log[k].file = 2

====
